---- MODULE Spec2Model ----
(***************************************************************************)
(* State machine of the AutoAssess dashboard view-model                    *)
(* (frontend/js/dashboard.js): the submission store, the filter/sort       *)
(* engine, the refresh and monitoring requests and the notifications.      *)
(*                                                                         *)
(* Strings are sequences of one-character strings, so that toLowerCase,    *)
(* includes and localeCompare are computed and not assumed.                *)
(***************************************************************************)
EXTENDS Integers, Sequences, FiniteSets, TLC

\* ------------------------------------------------------------------ bounds
\* longest store list of the sort/filter specification
SortLen == 3
\* loadDashboardData invocations that can be in flight at once
MaxRefresh == 2
\* monitoring requests (start, stop, status) that can be in flight at once
MaxMonitor == 2
\* notifications on screen at once
MaxNotes == 1
\* notifications on screen at once in the notification specification
MaxStack == 2
\* viewDetails invocations that can be in flight at once
MaxDetails == 2

\* ------------------------------------------------------- program constants
\* setTimeout(..., 3000): the display delay of a notification, in ms
DisplayMs == 3000
\* setTimeout(..., 300): the slideOut transition before remove(), in ms
TransitionMs == 300

\* ----------------------------------------------------------- JS strings
LowerLetters ==
    <<"a","b","c","d","e","f","g","h","i","j","k","l","m",
      "n","o","p","q","r","s","t","u","v","w","x","y","z">>

UpperLetters ==
    <<"A","B","C","D","E","F","G","H","I","J","K","L","M",
      "N","O","P","Q","R","S","T","U","V","W","X","Y","Z">>

Digits == <<"0","1","2","3","4","5","6","7","8","9">>

\* punctuation in the order of the root collation (all before the digits)
Punctuation == <<" ", "_", "-", ".", "+">>

IndexIn(c, seq) == CHOOSE i \in 1..Len(seq) : seq[i] = c

IsIn(c, seq) == \E i \in 1..Len(seq) : seq[i] = c

Range(seq) == { seq[i] : i \in 1..Len(seq) }

\* the characters of the model's strings
Chars == Range(LowerLetters) \cup Range(UpperLetters) \cup Range(Digits)
             \cup Range(Punctuation)

\* String.prototype.toLowerCase, character by character
LowerCaseOf ==
    [c \in Chars |-> IF IsIn(c, UpperLetters)
                     THEN LowerLetters[IndexIn(c, UpperLetters)] ELSE c]

\* String.prototype.toLowerCase
toLowerCase(s) == [i \in 1..Len(s) |-> LowerCaseOf[s[i]]]

\* String.prototype.includes: t occurs in s as a contiguous substring
includes(s, t) ==
    \E k \in 0..(Len(s) - Len(t)) : \A i \in 1..Len(t) : s[k + i] = t[i]

\* An optional string property of a JSON object: absent, or present with a
\* value (which may be the empty string).
None == [some |-> FALSE, val |-> <<>>]

Some(s) == [some |-> TRUE, val |-> s]

\* JS truthiness of an optional string: present and not ''
Truthy(f) == f.some /\ f.val # <<>>

\* f || dflt
OrElse(f, dflt) == IF Truthy(f) THEN f.val ELSE dflt

\* ------------------------------------------------- localeCompare (collation)
\* Collation elements of a string under { numeric: true, sensitivity: 'base' }:
\* a run of digits is one element ordered by its numeric value, a letter is
\* ordered by its base letter whatever its case, punctuation comes first.
\* An element is <<class, weight>> with class 0 punctuation, 1 number, 2 letter.
IsDigit == [c \in Chars |-> IsIn(c, Digits)]

DigitValue == [c \in Range(Digits) |-> IndexIn(c, Digits) - 1]

PrimaryWeight ==
    [c \in Chars \ Range(Digits) |->
        IF IsIn(LowerCaseOf[c], LowerLetters)
        THEN <<2, IndexIn(LowerCaseOf[c], LowerLetters)>>
        ELSE <<0, IndexIn(c, Punctuation)>>]

RECURSIVE CollationElements(_, _)
CollationElements(s, i) ==
    IF i > Len(s) THEN <<>>
    ELSE IF IsDigit[s[i]]
         THEN LET RECURSIVE RunEnd(_)
                  RunEnd(j) == IF j <= Len(s) /\ IsDigit[s[j]]
                               THEN RunEnd(j + 1) ELSE j
                  RECURSIVE Value(_, _)
                  Value(j, acc) == IF j <= Len(s) /\ IsDigit[s[j]]
                                   THEN Value(j + 1, acc * 10 + DigitValue[s[j]])
                                   ELSE acc
              IN  <<<<1, Value(i, 0)>>>> \o CollationElements(s, RunEnd(i))
         ELSE <<PrimaryWeight[s[i]]>> \o CollationElements(s, i + 1)

\* sign of the comparison of two sequences of collation elements
RECURSIVE CompareElements(_, _)
CompareElements(x, y) ==
    IF x = <<>> /\ y = <<>> THEN 0
    ELSE IF x = <<>> THEN -1
    ELSE IF y = <<>> THEN 1
    ELSE IF x[1][1] # y[1][1] THEN (IF x[1][1] < y[1][1] THEN -1 ELSE 1)
    ELSE IF x[1][2] # y[1][2] THEN (IF x[1][2] < y[1][2] THEN -1 ELSE 1)
    ELSE CompareElements(Tail(x), Tail(y))

\* String(a).localeCompare(String(b), undefined, {numeric:true, sensitivity:'base'})
localeCompare(s, t) ==
    CompareElements(CollationElements(s, 1), CollationElements(t, 1))

\* ------------------------------------------------------------- data model
Pending == <<"p","e","n","d","i","n","g">>

Evaluated == <<"e","v","a","l","u","a","t","e","d">>

\* submitted_at: absent, or a parsable date given by its time value
NoDate == [some |-> FALSE, t |-> 0]

At(t) == [some |-> TRUE, t |-> t]

\* assessment: absent, or total_score with an optional grade
NoAssessment == [has |-> FALSE, total_score |-> 0, grade |-> None]

Assessment(score, grade) == [has |-> TRUE, total_score |-> score, grade |-> grade]

Submission(id, sid, name, file, date, status, assessment) ==
    [_id |-> id, student_id |-> sid, student_name |-> name, file_name |-> file,
     submitted_at |-> date, status |-> status, assessment |-> assessment]

\* Submissions the backend can return in the sort/filter specification: mixed
\* case, numeric substrings, absent and empty fields, ties, missing
\* assessments and an assessment without a grade.
SortRecords ==
    { Submission(1, Some(<<"s","2">>), Some(<<"S","m","i","t","h">>),
                 Some(<<"a","1","0">>), At(2), Evaluated,
                 Assessment(88, Some(<<"A">>))),
      Submission(2, Some(<<"S","1","0">>), Some(<<"d","o","e">>),
                 Some(<<"a","9">>), At(1), Pending, NoAssessment),
      Submission(3, None, None, None, NoDate, Pending, NoAssessment),
      Submission(4, Some(<<>>), None, Some(<<"b">>), At(2), Evaluated,
                 Assessment(0, Some(<<"b","+">>))),
      Submission(5, Some(<<"s","2">>), Some(<<"s","m","i","t","h">>),
                 None, NoDate, Evaluated, Assessment(88, None)),
      Submission(6, Some(<<"s","1","0">>), Some(<<"D","o","e">>),
                 Some(<<"A","9">>), At(3), Evaluated,
                 Assessment(50, Some(<<"f">>))) }

\* Submissions the backend can return in the dashboard specification.
DashRecords ==
    { Submission(1, Some(<<"s","2">>), Some(<<"S","m","i","t","h">>),
                 Some(<<"a","1","0">>), At(2), Evaluated,
                 Assessment(88, Some(<<"A">>))),
      Submission(2, Some(<<"S","1","0">>), Some(<<"d","o","e">>),
                 Some(<<"a","9">>), At(1), Pending, NoAssessment) }

\* the lists without repeated submission, of length at most n, over a set of
\* submissions (ids are unique)
ListsOver(records, n) ==
    UNION { { s \in [1..k -> records] : \A i, j \in 1..k : s[i] = s[j] => i = j }
            : k \in 0..n }

\* values typed into the search box
SearchTerms == { <<>>, <<"S","M","I">>, <<"1","0">> }

\* options of the status filter ('' is "all")
StatusOptions == { <<>>, Pending, Evaluated }

\* -------------------------------------------------------- filter predicate
\* the callback of submissions.filter in filterSubmissions
matchesSearch(submission, searchTerm) ==
    \/ Truthy(submission.student_id)
         /\ includes(toLowerCase(submission.student_id.val), searchTerm)
    \/ Truthy(submission.student_name)
         /\ includes(toLowerCase(submission.student_name.val), searchTerm)
    \/ Truthy(submission.file_name)
         /\ includes(toLowerCase(submission.file_name.val), searchTerm)

matchesStatus(submission, filterValue) ==
    filterValue = <<>> \/ submission.status = filterValue

\* the array filterSubmissions passes to renderSubmissions
filtered(list, inputValue, filterValue) ==
    LET searchTerm == toLowerCase(inputValue)
        keep(submission) == /\ matchesSearch(submission, searchTerm)
                            /\ matchesStatus(submission, filterValue)
    IN  SelectSeq(list, keep)

\* renderSubmissions(filteredSubmissions = null): the rows written to
\* submissionsBody.  An array, even an empty one, is truthy.
NoArgument == [given |-> FALSE, list |-> <<>>]

Argument(list) == [given |-> TRUE, list |-> list]

renderSubmissions(filteredSubmissions, store) ==
    IF filteredSubmissions.given THEN filteredSubmissions.list ELSE store

\* --------------------------------------------------------------- renderers
\* String.prototype.toUpperCase, character by character
UpperCaseOf ==
    [c \in Chars |-> IF IsIn(c, LowerLetters)
                     THEN UpperLetters[IndexIn(c, LowerLetters)] ELSE c]

toUpperCase(s) == [i \in 1..Len(s) |-> UpperCaseOf[s[i]]]

NotAvailable == <<"N", "/", "A">>

Dash == <<"-">>

\* a score as text: n.toFixed(2), or one of the fixed texts '-', '0', or
\* nothing at all
Fixed2(n) == [text |-> "toFixed(2)", of |-> n]

DashScore == [text |-> "-", of |-> 0]

ZeroScore == [text |-> "0", of |-> 0]

NoScore == [text |-> "", of |-> 0]

\* formatDate
formatDate(date) ==
    IF date.some THEN [text |-> "toLocaleString", of |-> date.t]
    ELSE [text |-> "N/A", of |-> 0]

\* getGradeClass(assessment?.grade)
getGradeClass(assessment) ==
    IF assessment.has /\ Truthy(assessment.grade)
    THEN toLowerCase(SubSeq(assessment.grade.val, 1, 1))
    ELSE <<"f">>

\* the <tr> renderSubmissions writes for one submission, lines 200-219
tableRow(submission) ==
    [student_id |-> OrElse(submission.student_id, NotAvailable),
     student_name |-> OrElse(submission.student_name, NotAvailable),
     file_name |-> OrElse(submission.file_name, NotAvailable),
     submitted_at |-> formatDate(submission.submitted_at),
     status |-> toUpperCase(submission.status),
     score |-> IF submission.assessment.has
               THEN Fixed2(submission.assessment.total_score)
               ELSE DashScore,
     grade |-> IF submission.assessment.has
               THEN OrElse(submission.assessment.grade, Dash)
               ELSE Dash,
     gradeClass |-> getGradeClass(submission.assessment),
     details |-> submission._id,
     report |-> submission.status = Evaluated]

\* generateDetailsHTML: the identity and status fields, and the assessment
\* section for status 'evaluated' (assessment = submission.assessment || {})
generateDetailsHTML(submission) ==
    [student_id |-> OrElse(submission.student_id, NotAvailable),
     student_name |-> OrElse(submission.student_name, NotAvailable),
     file_name |-> OrElse(submission.file_name, NotAvailable),
     submitted_at |-> formatDate(submission.submitted_at),
     status |-> toUpperCase(submission.status),
     assessmentSection |-> submission.status = Evaluated,
     score |-> IF submission.status # Evaluated THEN NoScore
               ELSE IF submission.assessment.has
               THEN Fixed2(submission.assessment.total_score)
               ELSE ZeroScore,
     grade |-> IF submission.status # Evaluated THEN <<>>
               ELSE IF submission.assessment.has
               THEN OrElse(submission.assessment.grade, Dash)
               ELSE Dash]

\* The submissions of the detail specification, in the order of the store:
\* evaluated with an assessment, pending without, pending that carries an
\* assessment all the same, evaluated without an assessment.
RenderList ==
    << Submission(1, Some(<<"s","2">>), Some(<<"S","m","i","t","h">>),
                  Some(<<"a","1","0">>), At(2), Evaluated,
                  Assessment(88, Some(<<"A">>))),
       Submission(2, Some(<<"S","1","0">>), Some(<<"d","o","e">>),
                  Some(<<"a","9">>), At(1), Pending, NoAssessment),
       Submission(3, None, Some(<<"d","o","e">>), Some(<<"b">>), NoDate,
                  Pending, Assessment(70, Some(<<"b","+">>))),
       Submission(4, Some(<<"s","1","0">>), None, Some(<<"A","9">>), At(3),
                  Evaluated, NoAssessment) >>

\* What GET /api/submissions/{id} can return: the record as the store has
\* it, or, for submission 2, its later state (evaluated since the last
\* refresh).
FetchRecords ==
    Range(RenderList) \cup
    { Submission(2, Some(<<"S","1","0">>), Some(<<"d","o","e">>),
                 Some(<<"a","9">>), At(1), Evaluated,
                 Assessment(50, Some(<<"f">>))) }

\* data.submission: absent, or a submission
NoSubmission == [some |-> FALSE, submission |-> RenderList[1]]

Fetched(submission) == [some |-> TRUE, submission |-> submission]

DetailPayloads == { NoSubmission } \cup { Fetched(s) : s \in FetchRecords }

\* ------------------------------------------------------------------ sorting
sortableColumns ==
    { [key |-> "student_id",   type |-> "string"],
      [key |-> "student_name", type |-> "string"],
      [key |-> "file_name",    type |-> "string"],
      [key |-> "submitted_at", type |-> "date"],
      [key |-> "status",       type |-> "string"],
      [key |-> "score",        type |-> "number"],
      [key |-> "grade",        type |-> "string"] }

\* mutant: a missing score counts as higher than any score
scoreValueHigh(a) == IF a.assessment.has THEN a.assessment.total_score ELSE 101

\* a.assessment?.total_score ?? -1
scoreValue(a) == IF a.assessment.has THEN a.assessment.total_score ELSE -1

\* mutant: a missing grade is left to the generic a[column] || ''
gradeValueEmpty(a) == IF a.assessment.has THEN OrElse(a.assessment.grade, <<>>)
                      ELSE <<>>

\* a.assessment?.grade || 'Z'
gradeValue(a) == IF a.assessment.has THEN OrElse(a.assessment.grade, <<"Z">>)
                 ELSE <<"Z">>

\* a[column] || '' for the string columns
stringValue(a, column) ==
    CASE column = "student_id"   -> OrElse(a.student_id, <<>>)
      [] column = "student_name" -> OrElse(a.student_name, <<>>)
      [] column = "file_name"    -> OrElse(a.file_name, <<>>)
      [] column = "status"       -> a.status
      [] column = "grade"        -> gradeValue(a)

\* The value the comparator of sortTable returns for (a, b), as the sort uses
\* it: new Date('') is an invalid date, the difference is then NaN, and
\* Array.prototype.sort reads a NaN result as +0.
comparator(a, b, column, type, direction) ==
    LET comparison ==
            IF type = "number" THEN scoreValue(a) - scoreValue(b)
            ELSE IF type = "date"
                 THEN IF a.submitted_at.some /\ b.submitted_at.some
                      THEN a.submitted_at.t - b.submitted_at.t
                      ELSE 0
                 ELSE localeCompare(stringValue(a, column), stringValue(b, column))
    IN  IF direction = "asc" THEN comparison ELSE 0 - comparison

\* the permutations of 1..n, for every length a store list has in the model
OrderingsUpTo ==
    [n \in 0..(SortLen + 1) |->
        { p \in [1..n -> 1..n] : \A i, j \in 1..n : p[i] = p[j] => i = j }]

Orderings(n) == OrderingsUpTo[n]

\* the comparator's results on the elements of the list, pair by pair
comparisons(list, column, type, direction) ==
    [i \in 1..Len(list), j \in 1..Len(list) |->
        comparator(list[i], list[j], column, type, direction)]

\* the comparison results c form a consistent comparator (ECMAScript,
\* Array.prototype.sort) on n elements
consistentComparator(c, n) ==
    \A i, j \in 1..n :
       /\ c[i, i] = 0
       /\ (c[i, j] < 0) <=> (c[j, i] > 0)
       /\ \A k \in 1..n :
             /\ (c[i, j] = 0 /\ c[j, k] = 0) => c[i, k] = 0
             /\ (c[i, j] < 0 /\ c[j, k] < 0) => c[i, k] < 0
             /\ (c[i, j] > 0 /\ c[j, k] > 0) => c[i, k] > 0

\* mutant: elements that compare equal are left in any order
sortOrdersUnstable(c, n) ==
    IF consistentComparator(c, n)
    THEN { p \in Orderings(n) :
             \A i, j \in 1..n : i < j => c[p[i], p[j]] <= 0 }
    ELSE Orderings(n)

\* the orders Array.prototype.sort can leave n elements in, given the
\* comparison results c: with a consistent comparator the stable sorted
\* order; otherwise the order is implementation-defined, any permutation.
sortOrders(c, n) ==
    IF consistentComparator(c, n)
    THEN { p \in Orderings(n) :
             \A i, j \in 1..n :
                i < j => \/ c[p[i], p[j]] < 0
                         \/ c[p[i], p[j]] = 0 /\ p[i] < p[j] }
    ELSE Orderings(n)

\* mutant: the sort keeps the submissions that have an assessment only
sortOutcomesDroppingUnscored(list, column, type, direction) ==
    LET has(a) == a.assessment.has
        scored == SelectSeq(list, has)
    IN  UNION { { [i \in 1..Len(scored) |-> scored[p[i]]] :
                    p \in sortOrders(c, Len(scored)) }
                : c \in { comparisons(scored, column, type, direction) } }

\* submissions.sort(comparator): the lists the store can hold afterwards
sortOutcomes(list, column, type, direction) ==
    UNION { { [i \in 1..Len(list) |-> list[p[i]]] : p \in sortOrders(c, Len(list)) }
            : c \in { comparisons(list, column, type, direction) } }

\* ------------------------------------------------------------ API client
\* an optional text property of a JSON envelope
Absent == [some |-> FALSE, val |-> ""]

Text(t) == [some |-> TRUE, val |-> t]

\* What fetch brings back for one request.  network = FALSE: fetch rejects with
\* an error whose message is text.  json: the content-type is application/json.
\* Otherwise text is the body.  success is the envelope's flag: "true", "false"
\* or "absent".
Response(network, json, ok, status, text, success, error, message) ==
    [network |-> network, json |-> json, ok |-> ok, status |-> status,
     text |-> text, success |-> success, error |-> error, message |-> message]

OkResponse == Response(TRUE, TRUE, TRUE, "200", "", "true", Absent, Absent)

NetworkFailure ==
    Response(FALSE, FALSE, FALSE, "0", "Failed to fetch", "absent", Absent, Absent)

ServerError ==
    Response(TRUE, TRUE, FALSE, "500", "", "false", Text("boom"), Absent)

\* the failing responses of the dashboard and monitoring specifications
Failures == { NetworkFailure, ServerError }

\* every response of the API client specification: fetch rejects or resolves,
\* JSON or not, status 200 or 500, an empty or non-empty body text, the
\* success flag true, false or missing, error and message missing, '' or text
ApiResponses ==
    { Response(network, json, status = "200", status, text, success, error, message) :
        network \in BOOLEAN, json \in BOOLEAN, status \in {"200", "500"},
        text \in {"", "oops"}, success \in {"true", "false", "absent"},
        error \in {Absent, Text(""), Text("boom")},
        message \in {Absent, Text(""), Text("msg")} }

\* mutant: the envelope's message field is preferred to its error field
apiCallMessageFirst(response) ==
    IF ~response.network
    THEN [ok |-> FALSE, message |-> <<response.text>>]
    ELSE IF ~response.json
    THEN [ok |-> FALSE,
          message |-> IF response.text # "" THEN <<response.text>>
                      ELSE <<"Unexpected response format (status ",
                             response.status, ")">>]
    ELSE IF ~response.ok \/ response.success # "true"
    THEN [ok |-> FALSE,
          message |-> IF response.message.some /\ response.message.val # ""
                      THEN <<response.message.val>>
                      ELSE IF response.error.some /\ response.error.val # ""
                      THEN <<response.error.val>>
                      ELSE <<"Request failed with status ", response.status>>]
    ELSE [ok |-> TRUE, message |-> <<>>]

\* apiCall: the data is returned (ok) or an Error with this message is thrown,
\* after showNotification('Error: ' + error.message, 'error')
apiCall(response) ==
    IF ~response.network
    THEN [ok |-> FALSE, message |-> <<response.text>>]
    ELSE IF ~response.json
    THEN [ok |-> FALSE,
          message |-> IF response.text # "" THEN <<response.text>>
                      ELSE <<"Unexpected response format (status ",
                             response.status, ")">>]
    ELSE IF ~response.ok \/ response.success # "true"
    THEN [ok |-> FALSE,
          message |-> IF response.error.some /\ response.error.val # ""
                      THEN <<response.error.val>>
                      ELSE IF response.message.some /\ response.message.val # ""
                      THEN <<response.message.val>>
                      ELSE <<"Request failed with status ", response.status>>]
    ELSE [ok |-> TRUE, message |-> <<>>]

\* ------------------------------------------------------------ notifications
\* showNotification(message, type): the element appended to document.body;
\* age is the time since then, in ms, kept by the notification specification
Notification(message, type) ==
    [type |-> type, text |-> message, phase |-> "shown", age |-> 0]

ErrorNotification(message) == Notification(<<"Error: ">> \o message, "error")

\* mutant: the catch block of apiCall rethrows without notifying
apiCallCatchSilent(result, shown) ==
    [notifications |-> shown, thrown |-> ~result.ok]

\* the end of apiCall, lines 134-139: the data is returned, or the error is
\* notified and thrown again; shown are the notifications before
apiCallCatch(result, shown) ==
    [notifications |-> IF result.ok THEN shown
                       ELSE Append(shown, ErrorNotification(result.message)),
     thrown |-> ~result.ok]

\* ------------------------------------------------------------- statistics
\* let statistics = {}
NoStatistics == [some |-> FALSE, total_submissions |-> 0]

Statistics(n) == [some |-> TRUE, total_submissions |-> n]

\* the statistics payloads of the backend (absent: statsData.statistics || {})
StatisticsPayloads == { NoStatistics, Statistics(1) }

\* --------------------------------------------------------------- the state
VARIABLES
    loaded,            \* DOMContentLoaded has run (listeners and timer are set)
    submissions,       \* let submissions
    statistics,        \* let statistics
    monitoringActive,  \* let monitoringActive
    sortColumn,        \* let sortColumn ("null" or a column key)
    sortDirection,     \* let sortDirection
    searchInput,       \* elements.searchInput.value
    statusFilter,      \* elements.statusFilter.value
    displayed,         \* the submissions whose rows are in submissionsBody
    loadingVisible,    \* loadingIndicator is displayed
    notifications,     \* the notification elements in document.body, oldest first
    refresh,           \* the loadDashboardData invocations: where each one is
    subsBy,            \* history: the invocation that wrote submissions (0: an earlier one)
    coherent,          \* history: submissions and statistics were written by one invocation
    done,              \* history: how the invocation that ended last has ended
    monitor,           \* the start / stop / status requests: where each one is
    monitorDone,       \* history: which request ended last, and how
    backendActive,     \* the monitoring flag of the backend
    monitoringUI,      \* the disabled properties of the start and stop buttons
    monitorFailed,     \* history: a start / stop / status request has failed
    lastCall,          \* history: the response and the outcome of the last apiCall
    modal,             \* detailsModal: has the class active, and what modalBody shows
    detail,            \* the viewDetails invocations: where each one is
    detailDone         \* history: how the viewDetails that ended last has ended

vars == <<loaded, submissions, statistics, monitoringActive, sortColumn,
          sortDirection, searchInput, statusFilter, displayed, loadingVisible,
          notifications, refresh, subsBy, coherent, done, monitor,
          monitorDone, backendActive, monitoringUI, monitorFailed, lastCall,
          modal, detail, detailDone>>

modalVars == <<modal, detail, detailDone>>

storeVars == <<submissions, statistics>>

viewVars == <<sortColumn, sortDirection, searchInput, statusFilter>>

refreshVars == <<refresh, subsBy, coherent, done, loadingVisible>>

monitorVars == <<monitoringActive, monitor, monitorDone, backendActive,
                 monitoringUI, monitorFailed>>

Refreshes == 1..MaxRefresh

Monitors == 1..MaxMonitor

IdleRefresh == [pc |-> "idle", changed |-> FALSE]

IdleMonitor == [kind |-> "none", pc |-> "idle", active |-> FALSE]

\* an invocation of loadDashboardData is awaiting a response
InFlight(r) == refresh[r].pc # "idle"

\* the slot a new invocation takes: the first one not in flight
FreeRefresh(r) == ~InFlight(r) /\ \A q \in Refreshes : q < r => InFlight(q)

NoneDone == [outcome |-> "none", changed |-> FALSE]

NoMonitorDone == [kind |-> "none", outcome |-> "none"]

FreeMonitor(m) ==
    monitor[m].pc = "idle" /\ \A q \in Monitors : q < m => monitor[q].pc # "idle"

CanNotify == Len(notifications) < MaxNotes

\* the start and stop buttons as index.html has them, before any
\* updateMonitoringUI (updated is history: updateMonitoringUI has run)
Markup(start, stop) ==
    [updated |-> FALSE, startDisabled |-> start, stopDisabled |-> stop]

\* mutant: the stop button is left as it was enabled
updateMonitoringUIStopEnabled(active) ==
    [updated |-> TRUE, startDisabled |-> active, stopDisabled |-> FALSE]

\* updateMonitoringUI, lines 387-399: the disabled properties it assigns
updateMonitoringUI(active) ==
    [updated |-> TRUE, startDisabled |-> active, stopDisabled |-> ~active]

\* a disabled button dispatches no click event
Clickable(kind) ==
    IF kind = "start" THEN ~monitoringUI.startDisabled
    ELSE ~monitoringUI.stopDisabled

\* detailsModal before any viewDetails: closed, modalBody empty
EmptyBody == [shown |-> FALSE, html |-> generateDetailsHTML(RenderList[1])]

ClosedModal == [open |-> FALSE, body |-> EmptyBody]

Details == 1..MaxDetails

IdleDetail == [pc |-> "idle", id |-> 0]

NoDetailDone == [outcome |-> "none", id |-> 0, payload |-> NoSubmission]

FreeDetail(d) ==
    detail[d].pc = "idle" /\ \A q \in Details : q < d => detail[q].pc # "idle"

\* no apiCall of the API client specification has been made (turn is
\* flipped by every call)
NoCall == [made |-> FALSE, turn |-> 0, response |-> OkResponse,
           thrown |-> FALSE, message |-> <<>>]

\* lines 23-27, before DOMContentLoaded
Init ==
    /\ loaded = FALSE
    /\ submissions = <<>>
    /\ statistics = NoStatistics
    /\ monitoringActive = FALSE
    /\ sortColumn = "null"
    /\ sortDirection = "asc"
    /\ searchInput = <<>>
    /\ statusFilter = <<>>
    /\ displayed = <<>>
    /\ loadingVisible = FALSE
    /\ notifications = <<>>
    /\ refresh = [r \in Refreshes |-> IdleRefresh]
    /\ subsBy = 0
    /\ coherent = TRUE
    /\ done = NoneDone
    /\ monitor = [m \in Monitors |-> IdleMonitor]
    /\ monitorDone = NoMonitorDone
    /\ backendActive = FALSE
    /\ monitoringUI = Markup(FALSE, FALSE)
    /\ monitorFailed = FALSE
    /\ lastCall = NoCall
    /\ modal = ClosedModal
    /\ detail = [d \in Details |-> IdleDetail]
    /\ detailDone = NoDetailDone

\* ------------------------------------------------------------ view actions
\* filterSubmissions: recompute the rows from the store and the two inputs
filterSubmissions(store, inputValue, filterValue) ==
    renderSubmissions(Argument(filtered(store, inputValue, filterValue)), store)

\* mutant: typing in the search box clears the sort state
SearchInputResettingSort(term) ==
    /\ loaded
    /\ term # searchInput
    /\ searchInput' = term
    /\ sortColumn' = "null"
    /\ sortDirection' = "asc"
    /\ displayed' = filterSubmissions(submissions, term, statusFilter)
    /\ UNCHANGED <<loaded, lastCall, modalVars, storeVars, statusFilter,
                   notifications, refreshVars, monitorVars>>

\* the 'input' listener of searchInput: the user has typed term
SearchInput(term) ==
    /\ loaded
    /\ term # searchInput
    /\ searchInput' = term
    /\ displayed' = filterSubmissions(submissions, term, statusFilter)
    /\ UNCHANGED <<loaded, lastCall, modalVars, storeVars, sortColumn, sortDirection, statusFilter,
                   notifications, refreshVars, monitorVars>>

\* the 'change' listener of statusFilter: the user has picked option
StatusChange(option) ==
    /\ loaded
    /\ option # statusFilter
    /\ statusFilter' = option
    /\ displayed' = filterSubmissions(submissions, searchInput, option)
    /\ UNCHANGED <<loaded, lastCall, modalVars, storeVars, sortColumn, sortDirection, searchInput,
                   notifications, refreshVars, monitorVars>>

\* mutant: a click on another column keeps the direction
sortStateKeepingDirection(currentColumn, currentDirection, column) ==
    IF currentColumn = column
    THEN [column |-> currentColumn,
          direction |-> IF currentDirection = "asc" THEN "desc" ELSE "asc"]
    ELSE [column |-> column, direction |-> currentDirection]

\* sortTable, lines 279-284: the new sort key and direction
sortState(currentColumn, currentDirection, column) ==
    IF currentColumn = column
    THEN [column |-> currentColumn,
          direction |-> IF currentDirection = "asc" THEN "desc" ELSE "asc"]
    ELSE [column |-> column, direction |-> "asc"]

\* sortTable(column, type), from the click listener of a table header
SortTable(header) ==
    LET next == sortState(sortColumn, sortDirection, header.key)
    IN  /\ loaded
        /\ sortColumn' = next.column
        /\ sortDirection' = next.direction
        /\ submissions' \in sortOutcomes(submissions, header.key, header.type,
                                         next.direction)
        /\ displayed' = filterSubmissions(submissions', searchInput, statusFilter)
        /\ UNCHANGED <<loaded, lastCall, modalVars, statistics, searchInput, statusFilter,
                       notifications, refreshVars, monitorVars>>

\* ---------------------------------------------------------------- refresh
\* loadDashboardData up to its first await: showLoading(true) and the
\* submissions request is sent
startRefresh(r) ==
    /\ refresh' = [refresh EXCEPT ![r] = [pc |-> "submissions", changed |-> FALSE]]
    /\ subsBy' = IF subsBy = r THEN 0 ELSE subsBy
    /\ loadingVisible' = TRUE

\* checkMonitoringStatus up to its await: the status request is sent
startStatusCheck(m) ==
    monitor' = [monitor EXCEPT ![m] = [kind |-> "status", pc |-> "sent",
                                       active |-> FALSE]]

\* the DOMContentLoaded listener, lines 62-76
DOMContentLoaded ==
    /\ ~loaded
    /\ loaded' = TRUE
    /\ startRefresh(1)
    /\ startStatusCheck(1)
    /\ UNCHANGED <<storeVars, viewVars, displayed, notifications, coherent,
                   done, monitoringActive, monitorDone, backendActive,
                   monitoringUI, monitorFailed, lastCall, modalVars>>

\* loadDashboardData from the refresh button or the 30 second timer
LoadDashboardData(r) ==
    /\ loaded
    /\ FreeRefresh(r)
    /\ startRefresh(r)
    /\ UNCHANGED <<loaded, lastCall, modalVars, storeVars, viewVars, displayed, notifications,
                   coherent, done, monitorVars>>

\* mutant: the catch block of loadDashboardData notifies the error again
refreshFailsNotifyingAgain(r, result) ==
    /\ notifications' = Append(Append(notifications, ErrorNotification(result.message)),
                               ErrorNotification(result.message))
    /\ done' = [outcome |-> "failed", changed |-> refresh[r].changed]
    /\ refresh' = [refresh EXCEPT ![r] = IdleRefresh]
    /\ loadingVisible' = FALSE

\* the catch and finally blocks of loadDashboardData after apiCall has thrown
refreshFails(r, result) ==
    /\ notifications' = Append(notifications, ErrorNotification(result.message))
    /\ done' = [outcome |-> "failed", changed |-> refresh[r].changed]
    /\ refresh' = [refresh EXCEPT ![r] = IdleRefresh]
    /\ loadingVisible' = FALSE

\* the response to /api/submissions arrives; payload is its submissions
\* property (absent: submissionsData.submissions || [])
SubmissionsResponse(r, response, payload) ==
    LET result == apiCall(response)
        list == IF payload.given THEN payload.list ELSE <<>>
    IN  /\ refresh[r].pc = "submissions"
        /\ IF result.ok
           THEN /\ submissions' = list
                /\ refresh' = [refresh EXCEPT
                                 ![r] = [pc |-> "statistics",
                                         changed |-> list # submissions]]
                /\ subsBy' = r
                /\ coherent' = FALSE
                /\ UNCHANGED <<notifications, loadingVisible, done>>
           ELSE /\ CanNotify
                /\ refreshFails(r, result)
                /\ UNCHANGED <<submissions, subsBy, coherent>>
        /\ UNCHANGED <<loaded, lastCall, modalVars, statistics, viewVars, displayed, monitorVars>>

\* the response to /api/stats/overview arrives; payload is its statistics
\* property (NoStatistics when absent: statsData.statistics || {})
StatisticsResponse(r, response, payload) ==
    LET result == apiCall(response)
    IN  /\ refresh[r].pc = "statistics"
        /\ CanNotify
        /\ IF result.ok
           THEN /\ statistics' = payload
                /\ displayed' = renderSubmissions(NoArgument, submissions)
                /\ notifications' =
                       Append(notifications,
                              Notification(<<"Data refreshed successfully">>, "success"))
                /\ done' = [outcome |-> "succeeded",
                            changed |-> \/ refresh[r].changed
                                        \/ payload # statistics]
                /\ refresh' = [refresh EXCEPT ![r] = IdleRefresh]
                /\ coherent' = (subsBy = r)
                /\ loadingVisible' = FALSE
                /\ UNCHANGED subsBy
           ELSE /\ refreshFails(r, result)
                /\ UNCHANGED <<statistics, displayed, subsBy, coherent>>
        /\ UNCHANGED <<loaded, lastCall, modalVars, submissions, viewVars, monitorVars>>

\* ------------------------------------------------------------- monitoring
\* mutant: the state is flipped when the request is sent
MonitoringClickOptimistic(m, kind) ==
    /\ loaded
    /\ Clickable(kind)
    /\ FreeMonitor(m)
    /\ monitor' = [monitor EXCEPT ![m] = [kind |-> kind, pc |-> "sent",
                                          active |-> FALSE]]
    /\ monitoringActive' = (kind = "start")
    /\ UNCHANGED <<loaded, lastCall, modalVars, storeVars, viewVars, displayed, notifications,
                   refreshVars, monitorDone, backendActive, monitoringUI,
                   monitorFailed>>

\* startMonitoring / stopMonitoring up to the await: the request is sent
MonitoringClick(m, kind) ==
    /\ loaded
    /\ Clickable(kind)
    /\ FreeMonitor(m)
    /\ monitor' = [monitor EXCEPT ![m] = [kind |-> kind, pc |-> "sent",
                                          active |-> FALSE]]
    /\ UNCHANGED <<loaded, lastCall, modalVars, storeVars, viewVars, displayed, notifications,
                   refreshVars, monitoringActive, monitorDone, backendActive,
                   monitoringUI, monitorFailed>>

\* the backend handles a request: /api/monitor/start, stop or status
BackendServes(m) ==
    /\ monitor[m].pc = "sent"
    /\ backendActive' = CASE monitor[m].kind = "start" -> TRUE
                          [] monitor[m].kind = "stop" -> FALSE
                          [] OTHER -> backendActive
    /\ monitor' = [monitor EXCEPT ![m].pc = "served",
                                  ![m].active = backendActive]
    /\ UNCHANGED <<loaded, lastCall, modalVars, storeVars, viewVars, displayed, notifications,
                   refreshVars, monitoringActive, monitorDone, monitoringUI,
                   monitorFailed>>

\* the value of monitoringActive after the awaited apiCall has returned
monitoringAfter(call) ==
    CASE call.kind = "start" -> TRUE
      [] call.kind = "stop" -> FALSE
      [] OTHER -> call.active

\* the notifications after the awaited apiCall has returned
notifyAfter(call, shown) ==
    CASE call.kind = "start" ->
             Append(shown, Notification(<<"Monitoring started successfully">>, "success"))
      [] call.kind = "stop" ->
             Append(shown, Notification(<<"Monitoring stopped">>, "info"))
      [] OTHER -> shown

\* the response of a served request arrives and apiCall returns it
MonitoringSucceeds(m, response) ==
    /\ monitor[m].pc = "served"
    /\ apiCall(response).ok
    /\ monitor[m].kind = "status" \/ CanNotify
    /\ monitoringActive' = monitoringAfter(monitor[m])
    /\ monitoringUI' = updateMonitoringUI(monitoringActive')
    /\ notifications' = notifyAfter(monitor[m], notifications)
    /\ monitor' = [monitor EXCEPT ![m] = IdleMonitor]
    /\ monitorDone' = [kind |-> monitor[m].kind, outcome |-> "succeeded"]
    /\ UNCHANGED <<loaded, lastCall, modalVars, storeVars, viewVars, displayed, refreshVars,
                   backendActive, monitorFailed>>

\* apiCall throws (the request or its response was lost, or the backend
\* refused): the catch block of the caller only logs
MonitoringFails(m, response) ==
    LET result == apiCall(response)
    IN  /\ monitor[m].pc \in {"sent", "served"}
        /\ ~result.ok
        /\ CanNotify
        /\ notifications' = Append(notifications, ErrorNotification(result.message))
        /\ monitor' = [monitor EXCEPT ![m] = IdleMonitor]
        /\ monitorDone' = [kind |-> monitor[m].kind, outcome |-> "failed"]
        /\ monitorFailed' = TRUE
        /\ UNCHANGED <<loaded, lastCall, modalVars, storeVars, viewVars, displayed, refreshVars,
                       monitoringActive, backendActive, monitoringUI>>

\* ---------------------------------------------------------------- apiCall
\* one apiCall on its own, from its fetch to its return or throw, whoever
\* the caller is; response is what fetch brings back
ApiCall(response) ==
    LET result == apiCall(response)
        end == apiCallCatch(result, notifications)
    IN  /\ result.ok \/ CanNotify
        /\ notifications' = end.notifications
        /\ lastCall' = [made |-> TRUE, turn |-> 1 - lastCall.turn,
                        response |-> response, thrown |-> end.thrown,
                        message |-> result.message]
        /\ UNCHANGED <<loaded, storeVars, viewVars, displayed, refreshVars,
                       monitorVars, modalVars>>

\* ------------------------------------------------------------ detail modal
\* viewDetails up to its await, from the Details button of a row on screen
ViewDetails(d, id) ==
    /\ loaded
    /\ FreeDetail(d)
    /\ \E i \in 1..Len(displayed) : tableRow(displayed[i]).details = id
    /\ detail' = [detail EXCEPT ![d] = [pc |-> "sent", id |-> id]]
    /\ UNCHANGED <<loaded, lastCall, storeVars, viewVars, displayed,
                   notifications, refreshVars, monitorVars, modal, detailDone>>

\* how viewDetails ends: apiCall has thrown, or data.submission is missing
\* ('Submission not found' is thrown and caught), or the modal is opened
viewDetailsOutcome(result, payload) ==
    IF ~result.ok THEN "failed"
    ELSE IF ~payload.some THEN "missing"
    ELSE "opened"

\* mutant: the modal is opened before the fetch is known to have succeeded
viewDetailsModalOpenedAnyway(result, payload, before) ==
    IF viewDetailsOutcome(result, payload) = "opened"
    THEN [open |-> TRUE,
          body |-> [shown |-> TRUE, html |-> generateDetailsHTML(payload.submission)]]
    ELSE [before EXCEPT !.open = TRUE]

\* viewDetails after the await, lines 406-417: the modal afterwards, given
\* the modal before
viewDetailsModal(result, payload, before) ==
    IF viewDetailsOutcome(result, payload) = "opened"
    THEN [open |-> TRUE,
          body |-> [shown |-> TRUE, html |-> generateDetailsHTML(payload.submission)]]
    ELSE before

\* the response to GET /api/submissions/{id} arrives; payload is its
\* submission property, of the requested id when there is one
DetailsResponse(d, response, payload) ==
    LET result == apiCall(response)
        end == apiCallCatch(result, notifications)
    IN  /\ detail[d].pc = "sent"
        /\ payload.some => payload.submission._id = detail[d].id
        /\ result.ok \/ CanNotify
        /\ notifications' = end.notifications
        /\ modal' = viewDetailsModal(result, payload, modal)
        /\ detail' = [detail EXCEPT ![d] = IdleDetail]
        /\ detailDone' = [outcome |-> viewDetailsOutcome(result, payload),
                          id |-> detail[d].id,
                          payload |-> IF result.ok THEN payload ELSE NoSubmission]
        /\ UNCHANGED <<loaded, lastCall, storeVars, viewVars, displayed,
                       refreshVars, monitorVars>>

\* closeModal, from the close button or a click on the backdrop
CloseModal ==
    /\ modal.open
    /\ modal' = [modal EXCEPT !.open = FALSE]
    /\ UNCHANGED <<loaded, lastCall, storeVars, viewVars, displayed,
                   notifications, refreshVars, monitorVars, detail, detailDone>>

\* ------------------------------------------------------ notification timers
\* the 3000 ms timer of the oldest notification still shown: slideOut starts
NotificationTimeout(i) ==
    /\ i \in 1..Len(notifications)
    /\ notifications[i].phase = "shown"
    /\ \A j \in 1..(i - 1) : notifications[j].phase = "leaving"
    /\ notifications' = [notifications EXCEPT ![i].phase = "leaving"]
    /\ UNCHANGED <<loaded, lastCall, modalVars, storeVars, viewVars, displayed, refreshVars, monitorVars>>

\* the 300 ms timer of the oldest notification: notification.remove()
NotificationRemove ==
    /\ notifications # <<>>
    /\ notifications[1].phase = "leaving"
    /\ notifications' = Tail(notifications)
    /\ UNCHANGED <<loaded, lastCall, modalVars, storeVars, viewVars, displayed, refreshVars, monitorVars>>

\* ---------------------------------------- notification timers, with the clock
\* the clock advances by the greatest common divisor of the two delays
TickMs == TransitionMs

\* the notification types and the messages posted in this specification
NotificationTypes == {"info", "success", "error"}

MessageOf(type) ==
    CASE type = "info" -> <<"Monitoring stopped">>
      [] type = "success" -> <<"Data refreshed successfully">>
      [] OTHER -> <<"Error: ", "boom">>

\* mutant: a notification of the same type already on screen is replaced
showNotificationCoalescing(message, type, shown) ==
    LET other(n) == n.type # type
    IN  Append(SelectSeq(shown, other), Notification(message, type))

\* showNotification, lines 576-592: the element is appended to document.body,
\* whatever is there; shown are the notifications before
showNotification(message, type, shown) ==
    Append(shown, Notification(message, type))

\* showNotification called by any of its callers
ShowNotification(type) ==
    /\ Len(notifications) < MaxStack
    /\ notifications' = showNotification(MessageOf(type), type, notifications)
    /\ UNCHANGED <<loaded, lastCall, modalVars, storeVars, viewVars, displayed, refreshVars,
                   monitorVars>>

\* a timer of the notification has reached its time and has not run yet
Due(n) ==
    \/ n.phase = "shown" /\ n.age >= DisplayMs
    \/ n.phase = "leaving" /\ n.age >= DisplayMs + TransitionMs

\* time passes: the event loop runs a timer when it is due, so the clock
\* advances only when no timer is due
Tick ==
    /\ notifications # <<>>
    /\ \A i \in 1..Len(notifications) : ~Due(notifications[i])
    /\ notifications' = [i \in 1..Len(notifications) |->
                            [notifications[i] EXCEPT !.age = @ + TickMs]]
    /\ UNCHANGED <<loaded, lastCall, modalVars, storeVars, viewVars, displayed, refreshVars,
                   monitorVars>>

\* the callback of setTimeout(..., 3000) of notification i: slideOut starts
\* and the 300 ms timer is set
DisplayTimer(i) ==
    /\ i \in 1..Len(notifications)
    /\ notifications[i].phase = "shown"
    /\ notifications[i].age >= DisplayMs
    /\ notifications' = [notifications EXCEPT ![i].phase = "leaving"]
    /\ UNCHANGED <<loaded, lastCall, modalVars, storeVars, viewVars, displayed, refreshVars,
                   monitorVars>>

\* a sequence without its element i
Without(seq, i) == SubSeq(seq, 1, i - 1) \o SubSeq(seq, i + 1, Len(seq))

\* the callback of setTimeout(..., 300) of notification i: notification.remove()
RemoveTimer(i) ==
    /\ i \in 1..Len(notifications)
    /\ notifications[i].phase = "leaving"
    /\ notifications[i].age >= DisplayMs + TransitionMs
    /\ notifications' = Without(notifications, i)
    /\ UNCHANGED <<loaded, lastCall, modalVars, storeVars, viewVars, displayed, refreshVars,
                   monitorVars>>

\* ----------------------------------------------------------- specifications
\* the columns whose headers are clicked in the dashboard specification
DashColumns == { c \in sortableColumns : c.key = "score" }

\* the search terms and status options used in the dashboard specification
DashTerms == { <<>>, <<"S","M","I">> }

DashOptions == { <<>>, Pending }

Responses == { OkResponse } \cup Failures

\* the responses to the requests of a refresh
RefreshResponses == { OkResponse, ServerError }

\* the submissions payloads of the backend in the dashboard specification
SubmissionsPayloads ==
    { NoArgument } \cup { Argument(l) : l \in ListsOver(DashRecords, Cardinality(DashRecords)) }

ViewNext ==
    \/ \E term \in DashTerms : SearchInput(term)
    \/ \E option \in DashOptions : StatusChange(option)
    \/ \E header \in DashColumns : SortTable(header)

RefreshNext ==
    \/ \E r \in Refreshes : LoadDashboardData(r)
    \/ \E r \in Refreshes, response \in RefreshResponses, payload \in SubmissionsPayloads :
          SubmissionsResponse(r, response, payload)
    \/ \E r \in Refreshes, response \in RefreshResponses, payload \in StatisticsPayloads :
          StatisticsResponse(r, response, payload)

MonitoringNext ==
    \/ \E m \in Monitors, kind \in {"start", "stop"} : MonitoringClick(m, kind)
    \/ \E m \in Monitors : BackendServes(m)
    \/ \E m \in Monitors, response \in Responses : MonitoringSucceeds(m, response)
    \/ \E m \in Monitors, response \in Responses : MonitoringFails(m, response)

TimerNext ==
    \/ \E i \in 1..MaxNotes : NotificationTimeout(i)
    \/ NotificationRemove

\* the refreshes: page load, manual and timer refreshes, notification timers
LoadNext == DOMContentLoaded \/ RefreshNext \/ TimerNext

RefreshSpec == Init /\ [][LoadNext]_vars

\* the dashboard: the refreshes and the view
Next == DOMContentLoaded \/ RefreshNext \/ ViewNext \/ TimerNext

Spec == Init /\ [][Next]_vars

\* the list the backend returns in the sort-state specification: both
\* submissions of the dashboard specification, the evaluated one first
BackendList ==
    Argument(<<CHOOSE s \in DashRecords : s._id = 1,
               CHOOSE s \in DashRecords : s._id = 2>>)

\* the sort state under refreshes and filter changes: the dashboard with a
\* backend that returns the same list and the same statistics every time
SortStateNext ==
    \/ DOMContentLoaded
    \/ \E r \in Refreshes : LoadDashboardData(r)
    \/ \E r \in Refreshes, response \in RefreshResponses :
          SubmissionsResponse(r, response, BackendList)
    \/ \E r \in Refreshes, response \in RefreshResponses :
          StatisticsResponse(r, response, Statistics(1))
    \/ ViewNext
    \/ TimerNext

SortStateSpec == Init /\ [][SortStateNext]_vars

\* the monitoring controller: page load, start and stop clicks, the backend
\* and the responses; the backend monitor may be running at page load, and
\* the markup (index.html) may have either button disabled
MonitorInit ==
    \E running, start, stop \in BOOLEAN :
        /\ loaded = FALSE
        /\ submissions = <<>>
        /\ statistics = NoStatistics
        /\ monitoringActive = FALSE
        /\ sortColumn = "null"
        /\ sortDirection = "asc"
        /\ searchInput = <<>>
        /\ statusFilter = <<>>
        /\ displayed = <<>>
        /\ loadingVisible = FALSE
        /\ notifications = <<>>
        /\ refresh = [r \in Refreshes |-> IdleRefresh]
        /\ subsBy = 0
        /\ coherent = TRUE
        /\ done = NoneDone
        /\ monitor = [m \in Monitors |-> IdleMonitor]
        /\ monitorDone = NoMonitorDone
        /\ backendActive = running
        /\ monitoringUI = Markup(start, stop)
        /\ monitorFailed = FALSE
        /\ lastCall = NoCall
        /\ modal = ClosedModal
        /\ detail = [d \in Details |-> IdleDetail]
        /\ detailDone = NoDetailDone

MonitorNext == DOMContentLoaded \/ MonitoringNext \/ TimerNext

MonitorSpec == MonitorInit /\ [][MonitorNext]_vars

\* the API client on its own: calls and the timers of their notifications
ApiNext ==
    \/ \E response \in ApiResponses : ApiCall(response)
    \/ TimerNext

ApiSpec == Init /\ [][ApiNext]_vars

\* the notifications on their own, with the clock: any caller posts, time
\* passes, the timers run
NotifyNext ==
    \/ \E type \in NotificationTypes : ShowNotification(type)
    \/ Tick
    \/ \E i \in 1..MaxStack : DisplayTimer(i)
    \/ \E i \in 1..MaxStack : RemoveTimer(i)

NotifySpec == Init /\ [][NotifyNext]_vars

\* the detail modal on its own: a refresh has brought RenderList and rendered
\* it; Details buttons are clicked, the responses arrive in any order, the
\* modal is closed
DetailInit ==
    /\ loaded = TRUE
    /\ submissions = RenderList
    /\ statistics = Statistics(1)
    /\ monitoringActive = FALSE
    /\ sortColumn = "null"
    /\ sortDirection = "asc"
    /\ searchInput = <<>>
    /\ statusFilter = <<>>
    /\ displayed = renderSubmissions(NoArgument, RenderList)
    /\ loadingVisible = FALSE
    /\ notifications = <<>>
    /\ refresh = [r \in Refreshes |-> IdleRefresh]
    /\ subsBy = 1
    /\ coherent = TRUE
    /\ done = [outcome |-> "succeeded", changed |-> TRUE]
    /\ monitor = [m \in Monitors |-> IdleMonitor]
    /\ monitorDone = [kind |-> "status", outcome |-> "succeeded"]
    /\ backendActive = FALSE
    /\ monitoringUI = updateMonitoringUI(FALSE)
    /\ monitorFailed = FALSE
    /\ lastCall = NoCall
    /\ modal = ClosedModal
    /\ detail = [d \in Details |-> IdleDetail]
    /\ detailDone = NoDetailDone

DetailNext ==
    \/ \E d \in Details, id \in 1..Len(RenderList) : ViewDetails(d, id)
    \/ \E d \in Details, response \in Responses, payload \in DetailPayloads :
          DetailsResponse(d, response, payload)
    \/ CloseModal
    \/ TimerNext

DetailSpec == DetailInit /\ [][DetailNext]_vars

\* the filter/sort engine on its own: the page has loaded, a refresh has
\* brought any list of at most SortLen submissions and rendered it, its
\* notification is gone; then headers are clicked and the inputs changed
SortInit ==
    \E list \in ListsOver(SortRecords, SortLen) :
        /\ loaded = TRUE
        /\ submissions = list
        /\ statistics = Statistics(1)
        /\ monitoringActive = FALSE
        /\ sortColumn = "null"
        /\ sortDirection = "asc"
        /\ searchInput = <<>>
        /\ statusFilter = <<>>
        /\ displayed = renderSubmissions(NoArgument, list)
        /\ loadingVisible = FALSE
        /\ notifications = <<>>
        /\ refresh = [r \in Refreshes |-> IdleRefresh]
        /\ subsBy = 1
        /\ coherent = TRUE
        /\ done = [outcome |-> "succeeded", changed |-> TRUE]
        /\ monitor = [m \in Monitors |-> IdleMonitor]
        /\ monitorDone = [kind |-> "status", outcome |-> "succeeded"]
        /\ backendActive = FALSE
        /\ monitoringUI = updateMonitoringUI(FALSE)
        /\ monitorFailed = FALSE
        /\ lastCall = NoCall
        /\ modal = ClosedModal
        /\ detail = [d \in Details |-> IdleDetail]
        /\ detailDone = NoDetailDone

SortNext ==
    \/ \E term \in SearchTerms : SearchInput(term)
    \/ \E option \in StatusOptions : StatusChange(option)
    \/ \E header \in sortableColumns : SortTable(header)

SortSpec == SortInit /\ [][SortNext]_vars

\* ================================================================= claims
\* the steps of the invocation r of loadDashboardData
RefreshStarts(r) == ~InFlight(r) /\ refresh'[r].pc = "submissions"

RefreshEnds(r) == InFlight(r) /\ refresh'[r].pc = "idle"

RefreshFailsNow(r) == RefreshEnds(r) /\ done'.outcome = "failed"

RefreshSucceedsNow(r) == RefreshEnds(r) /\ done'.outcome = "succeeded"

\* one notification of the given type has been appended, and nothing else
OneMoreNotification(type) ==
    /\ Len(notifications') = Len(notifications) + 1
    /\ SubSeq(notifications', 1, Len(notifications)) = notifications
    /\ notifications'[Len(notifications')].type = type

\* the filter predicate as the specification words it: the search term is
\* empty or a case-insensitive substring of a present field, and the status
\* filter is empty or the submission's status
Matches(submission, inputValue, filterValue) ==
    /\ \/ inputValue = <<>>
       \/ \E f \in {submission.student_id, submission.student_name,
                    submission.file_name} :
             f.some /\ includes(toLowerCase(f.val), toLowerCase(inputValue))
    /\ (filterValue = <<>> \/ submission.status = filterValue)

\* the elements of a list that match, in the list's order
Matching(list, inputValue, filterValue) ==
    LET keep(submission) == Matches(submission, inputValue, filterValue)
    IN  SelectSeq(list, keep)

\* the step is a call of sortTable for this header: sortTable always changes
\* the sort key or the direction, nothing else does, and the key it leaves
\* is the one it was called with
SortStep(header) ==
    /\ <<sortColumn, sortDirection>>' # <<sortColumn, sortDirection>>
    /\ sortColumn' = header.key

\* C1: a refresh that failed has left the store's submissions and statistics
\* equal to their values before it (it has changed neither).
C1_FailedRefreshKeepsStore == done.outcome = "failed" => ~done.changed

\* C2: no step of a refresh other than its successful end changes the
\* rendered rows or posts a notification, except that the step in which it
\* fails posts exactly one error notification.
C2_FailedRefreshKeepsRowsOneError ==
    [][\A r \in Refreshes :
          /\ RefreshFailsNow(r) =>
                displayed' = displayed /\ OneMoreNotification("error")
          /\ (refresh'[r] # refresh[r] /\ InFlight(r)') =>
                displayed' = displayed /\ notifications' = notifications]_vars

\* a refresh has failed with rows on screen, and its error is on screen
C2_Witness ==
    /\ done.outcome = "failed"
    /\ displayed # <<>>
    /\ \E i \in 1..Len(notifications) : notifications[i].type = "error"

\* C3: in every reachable state the submissions and the statistics of the
\* store were written by the same refresh.
C3_StoreFromOneRefresh == coherent

\* C4: after a successful refresh, a sortTable, a search input or a status
\* filter change, the rendered rows are the submissions of the store that
\* match the search term and the status filter, in store order.
C4_RowsAreFilteredStore ==
    [][(\/ \E r \in Refreshes : RefreshSucceedsNow(r)
        \/ <<sortColumn, sortDirection>>' # <<sortColumn, sortDirection>>
        \/ searchInput' # searchInput
        \/ statusFilter' # statusFilter)
       => displayed' = Matching(submissions', searchInput', statusFilter')]_vars

\* C5: after filterSubmissions a submission of the store has a row if and
\* only if it matches the search term and the status filter, also when its
\* studentId, studentName and fileName are all absent or empty.
C5_RowIffMatches ==
    [][\A i \in 1..Len(submissions') :
          (\E j \in 1..Len(displayed') : displayed'[j] = submissions'[i])
              <=> Matches(submissions'[i], searchInput', statusFilter')]_vars

\* C6: after sortTable the rendered rows are exactly the submissions of the
\* store that match the filter state, in the order of the sorted store; the
\* sorted store is a permutation of the store before.
C6_RowsAreMatchingInSortedOrder ==
    [][\A header \in sortableColumns :
          SortStep(header) =>
             /\ displayed' = Matching(submissions', searchInput, statusFilter)
             /\ \E p \in Orderings(Len(submissions)) :
                   submissions' = [i \in 1..Len(submissions) |-> submissions[p[i]]]]_vars

\* C7: sortTable with the selected key keeps the key and flips the
\* direction; with another key it selects that key, ascending.
C7_SameKeyTogglesOtherKeyAscending ==
    [][\A header \in sortableColumns :
          SortStep(header) =>
             IF sortColumn = header.key
             THEN /\ sortColumn' = sortColumn
                  /\ sortDirection' = (IF sortDirection = "asc" THEN "desc" ELSE "asc")
             ELSE /\ sortColumn' = header.key
                  /\ sortDirection' = "asc"]_vars

\* a key has been clicked twice
C7_Witness == sortColumn # "null" /\ sortDirection = "desc"

\* submissions without / with an assessment in a list
Unscored(list) == { i \in 1..Len(list) : ~list[i].assessment.has }

Scored(list) == { i \in 1..Len(list) : list[i].assessment.has }

\* C8 as stated: after sortTable by score, in either direction, every
\* submission without an assessment is after every submission with a score.
C8_UnscoredAlwaysLast ==
    [][\A header \in sortableColumns :
          (SortStep(header) /\ header.key = "score") =>
             \A i \in Unscored(submissions'), j \in Scored(submissions') : i > j]_vars

\* C8 as amended: after sortTable by score a submission without an
\* assessment sorts lowest: before every submission with a score when the
\* direction is ascending, after every one when it is descending.
C8_UnscoredSortLowest ==
    [][\A header \in sortableColumns :
          (SortStep(header) /\ header.key = "score") =>
             \A i \in Unscored(submissions'), j \in Scored(submissions') :
                IF sortDirection' = "asc" THEN i < j ELSE i > j]_vars

\* sorted by score, descending, with and without assessments
C8_Witness ==
    /\ sortColumn = "score" /\ sortDirection = "desc"
    /\ Unscored(submissions) # {} /\ Scored(submissions) # {}
    /\ \A i \in Unscored(submissions), j \in Scored(submissions) : i > j

\* submissions without / with a grade in a list
Ungraded(list) ==
    { i \in 1..Len(list) :
        ~list[i].assessment.has \/ ~Truthy(list[i].assessment.grade) }

Graded(list) == (1..Len(list)) \ Ungraded(list)

\* C9: after sortTable by grade, ascending, every submission without a grade
\* is after every submission with a grade, whatever the case of the grade.
C9_UngradedLastAscending ==
    [][\A header \in sortableColumns :
          (SortStep(header) /\ header.key = "grade" /\ sortDirection' = "asc") =>
             \A i \in Ungraded(submissions'), j \in Graded(submissions') : i > j]_vars

\* sorted by grade, ascending, with an upper-case and a lower-case grade and
\* a submission without grade
C9_Witness ==
    /\ sortColumn = "grade" /\ sortDirection = "asc"
    /\ Ungraded(submissions) # {}
    /\ \E i, j \in Graded(submissions) :
          /\ submissions[i].assessment.grade.val[1] \in Range(UpperLetters)
          /\ submissions[j].assessment.grade.val[1] \in Range(LowerLetters)
    /\ \A i \in Ungraded(submissions), j \in Graded(submissions) : i > j

\* the steps of the monitoring request m
MonitorSent(m) == monitor[m].pc = "idle" /\ monitor'[m].pc = "sent"

MonitorEnds(m, kind, outcome) ==
    /\ monitor[m].pc # "idle" /\ monitor'[m].pc = "idle"
    /\ monitor[m].kind = kind
    /\ monitorDone'.outcome = outcome

\* C10: monitoringActive changes only in the step in which a start, stop or
\* status request succeeds; sending a request and the failure of a start or
\* stop leave it as it was; the failure posts exactly one error notification
\* and nothing else; a successful start sets it, a successful stop clears it.
C10_NoOptimisticFlip ==
    [][/\ monitoringActive' # monitoringActive =>
             \E m \in Monitors, kind \in {"start", "stop", "status"} :
                 MonitorEnds(m, kind, "succeeded")
       /\ \A m \in Monitors :
             /\ MonitorSent(m) =>
                   monitoringActive' = monitoringActive /\ notifications' = notifications
             /\ \A kind \in {"start", "stop"} :
                   /\ MonitorEnds(m, kind, "failed") =>
                         /\ monitoringActive' = monitoringActive
                         /\ OneMoreNotification("error")
                   /\ MonitorEnds(m, kind, "succeeded") =>
                         monitoringActive' = (kind = "start")]_vars

\* a start request has failed: the state is inactive, one error is on screen
C10_Witness ==
    /\ monitorDone = [kind |-> "start", outcome |-> "failed"]
    /\ ~monitoringActive
    /\ Len(notifications) = 1 /\ notifications[1].type = "error"

\* C11: in every state reached after updateMonitoringUI has run, the start
\* button is enabled iff monitoringActive is false and the stop button is
\* enabled iff it is true, so exactly one of the two is enabled.
C11_ButtonsAgreeWithState ==
    monitoringUI.updated =>
        /\ ~monitoringUI.startDisabled <=> ~monitoringActive
        /\ ~monitoringUI.stopDisabled <=> monitoringActive
        /\ monitoringUI.startDisabled # monitoringUI.stopDisabled

\* a stop request has succeeded after the state had been active: the UI has
\* been updated and only the start button is enabled
C11_Witness ==
    /\ monitoringUI = updateMonitoringUI(FALSE)
    /\ monitorDone = [kind |-> "stop", outcome |-> "succeeded"]
    /\ ~monitoringActive

\* the step is an apiCall of the API client specification
ApiCallStep == lastCall'.turn # lastCall.turn

\* the failures the specification lists: a transport failure, a non-JSON
\* body, a status outside the success range, an explicit failure flag
ListedFailure(response) ==
    \/ ~response.network
    \/ ~response.json
    \/ ~response.ok
    \/ response.success = "false"

\* C12: an apiCall that fails (in particular on every listed failure) posts
\* exactly one error notification and throws; an apiCall that posts no
\* notification does not throw, and one that returns posts nothing.
C12_FailureNotifiedOnceAndThrown ==
    [][ApiCallStep =>
          /\ ListedFailure(lastCall'.response) => lastCall'.thrown
          /\ lastCall'.thrown => OneMoreNotification("error")
          /\ ~lastCall'.thrown => notifications' = notifications]_vars

\* a call has met HTTP 500 with a JSON envelope: thrown, one error on screen
C12_Witness ==
    /\ lastCall.made /\ lastCall.thrown
    /\ lastCall.response.network /\ lastCall.response.json
    /\ ~lastCall.response.ok
    /\ Len(notifications) = 1 /\ notifications[1].type = "error"

\* C13: apiCall throws exactly on the listed failures; a JSON response with
\* a success status and no explicit failure flag is returned.
C13_FailsExactlyOnListedFailures ==
    lastCall.made => (lastCall.thrown <=> ListedFailure(lastCall.response))

\* the text of the notification posted last
LastNotificationText == notifications'[Len(notifications')].text

\* the generic message carrying the HTTP status
GenericMessage(response) == <<"Request failed with status ", response.status>>

\* C19 as stated: the message of a failing JSON response is the envelope's
\* error field when it is present, otherwise its message field when it is
\* present, otherwise the generic text with the status; the message of a
\* non-JSON response is the raw response text; the notification carries it.
C19_MessageByPresence ==
    [][(ApiCallStep /\ lastCall'.thrown /\ lastCall'.response.network) =>
          LET response == lastCall'.response
          IN  /\ lastCall'.message =
                    IF response.json
                    THEN IF response.error.some THEN <<response.error.val>>
                         ELSE IF response.message.some THEN <<response.message.val>>
                         ELSE GenericMessage(response)
                    ELSE <<response.text>>
              /\ LastNotificationText = <<"Error: ">> \o lastCall'.message]_vars

\* C19 as amended: the error field when it is present and not empty,
\* otherwise the message field when it is present and not empty, otherwise
\* the generic text with the status; for a non-JSON response the raw text
\* when it is not empty, otherwise a generic text with the status; the
\* notification's text is 'Error: ' followed by the message.
C19_MessageByNonEmptyField ==
    [][(ApiCallStep /\ lastCall'.thrown /\ lastCall'.response.network) =>
          LET response == lastCall'.response
          IN  /\ lastCall'.message =
                    IF response.json
                    THEN IF response.error.some /\ response.error.val # ""
                         THEN <<response.error.val>>
                         ELSE IF response.message.some /\ response.message.val # ""
                         THEN <<response.message.val>>
                         ELSE GenericMessage(response)
                    ELSE IF response.text # "" THEN <<response.text>>
                         ELSE <<"Unexpected response format (status ",
                                response.status, ")">>
              /\ LastNotificationText = <<"Error: ">> \o lastCall'.message]_vars

\* a failing JSON response with an empty error field and a message field:
\* the message field is the message notified
C19_Witness ==
    /\ lastCall.made /\ lastCall.thrown
    /\ lastCall.response.json /\ lastCall.response.network
    /\ lastCall.response.error = Text("")
    /\ lastCall.response.message = Text("msg")
    /\ Len(notifications) = 1
    /\ notifications[1].text = <<"Error: ", "msg">>

\* C14: a notification is on screen for its own 3000 ms display delay and
\* 300 ms transition and no longer; it is removed only at that age; posting
\* another notification appends one element and leaves the others, their
\* ages and their phases as they were; removing one leaves the others as
\* they were; slideOut starts at 3000 ms.
C14_RemovedByOwnTimersOnly ==
    [][LET n == Len(notifications)
           m == Len(notifications')
       IN  /\ m \in {n - 1, n, n + 1}
           /\ \A i \in 1..m :
                 /\ notifications'[i].age <= DisplayMs + TransitionMs
                 /\ notifications'[i].phase = "shown" =>
                       notifications'[i].age <= DisplayMs
           /\ m = n + 1 =>
                 /\ SubSeq(notifications', 1, n) = notifications
                 /\ notifications'[m].age = 0
                 /\ notifications'[m].phase = "shown"
           /\ m = n - 1 =>
                 \E i \in 1..n :
                    /\ notifications[i].age = DisplayMs + TransitionMs
                    /\ notifications[i].phase = "leaving"
                    /\ notifications' = Without(notifications, i)
           /\ m = n =>
                 \/ \A i \in 1..n :
                       notifications'[i] =
                          [notifications[i] EXCEPT !.age = @ + TickMs]
                 \/ \E i \in 1..n :
                       /\ notifications[i].age = DisplayMs
                       /\ notifications' =
                             [notifications EXCEPT ![i].phase = "leaving"]]_vars

\* two notifications of the same type on screen: the older one is at the
\* end of its transition, the younger one is still displayed
C14_Witness ==
    /\ Len(notifications) = 2
    /\ notifications[1].type = notifications[2].type
    /\ notifications[1].phase = "leaving"
    /\ notifications[1].age = DisplayMs + TransitionMs
    /\ notifications[2].phase = "shown"
    /\ notifications[2].age \in {TickMs, DisplayMs - TickMs}

\* C15: filterSubmissions (a search or status change) leaves the store list
\* as it is; sortTable leaves a permutation of it: the same records, each
\* once, with every field as before.
C15_SortAndFilterKeepRecords ==
    [][/\ (searchInput' # searchInput \/ statusFilter' # statusFilter) =>
             submissions' = submissions
       /\ \A header \in sortableColumns :
             SortStep(header) =>
                /\ Len(submissions') = Len(submissions)
                /\ Range(submissions') = Range(submissions)]_vars

\* a full store has been sorted and then filtered to fewer rows
C15_Witness ==
    /\ sortColumn = "student_name"
    /\ searchInput # <<>>
    /\ Len(submissions) = SortLen
    /\ Len(displayed) < Len(submissions)
    /\ \E i \in 1..Len(submissions) : ~submissions[i].assessment.has

\* the place of a submission in a list that holds it
PositionIn(list, a) == CHOOSE i \in 1..Len(list) : list[i] = a

\* the pairs of a list that compare equal keep their order in the list after
KeepsTies(before, after, c) ==
    \A i, j \in 1..Len(before) :
       (i < j /\ c[i, j] = 0) =>
          PositionIn(after, before[i]) < PositionIn(after, before[j])

\* C20 as stated: after sortTable, in either direction, two submissions whose
\* values for the sort key compare equal are in the relative order they had
\* in the store before.
C20_StableSort ==
    [][\A header \in sortableColumns :
          SortStep(header) =>
             \A c \in { comparisons(submissions, header.key, header.type,
                                    sortDirection') } :
                KeepsTies(submissions, submissions', c)]_vars

\* C20 as amended: the same, whenever the comparisons of the sort key order
\* the store consistently (always, except for submitted_at with a missing or
\* unparsable date beside dates that differ).
C20_StableSortWhenConsistent ==
    [][\A header \in sortableColumns :
          SortStep(header) =>
             \A c \in { comparisons(submissions, header.key, header.type,
                                    sortDirection') } :
                consistentComparator(c, Len(submissions)) =>
                   KeepsTies(submissions, submissions', c)]_vars

\* sorted by score, descending: the two submissions with score 88 are in
\* the store, submission 5 before submission 1, with a lower score after
C20_Witness ==
    /\ sortColumn = "score" /\ sortDirection = "desc"
    /\ Len(submissions) = 3
    /\ submissions[1]._id = 5 /\ submissions[2]._id = 1
    /\ submissions[3].assessment.has

\* C16: no step of a refresh (its start, the arrival of either response, its
\* success or its failure), no search-term change and no status-filter
\* change alters the sort key or the sort direction; a step that alters them
\* is a sortTable step, which touches neither the refreshes nor the inputs.
C16_SortStateChangedBySortTableOnly ==
    [][/\ (\/ \E r \in Refreshes : refresh'[r] # refresh[r]
           \/ done' # done
           \/ searchInput' # searchInput
           \/ statusFilter' # statusFilter)
          => <<sortColumn, sortDirection>>' = <<sortColumn, sortDirection>>
       /\ <<sortColumn, sortDirection>>' # <<sortColumn, sortDirection>> =>
             \E header \in sortableColumns :
                LET next == sortState(sortColumn, sortDirection, header.key)
                IN  /\ sortColumn' = next.column
                    /\ sortDirection' = next.direction
                    /\ UNCHANGED <<refresh, done, searchInput, statusFilter>>]_vars

\* the key score, descending, is selected, a search term is typed, and a
\* second refresh has replaced the store and awaits its statistics
C16_Witness ==
    /\ sortColumn = "score" /\ sortDirection = "desc"
    /\ searchInput # <<>>
    /\ done.outcome = "succeeded"
    /\ refresh[2].pc = "statistics"

\* the comparison of two rows by the selected key and direction
SelectedComparison(a, b) ==
    LET header == CHOOSE h \in sortableColumns : h.key = sortColumn
    IN  comparator(a, b, header.key, header.type, sortDirection)

\* C17: whenever a sort key is selected, the rendered rows are ordered by
\* that key in the selected direction.
C17_RowsOrderedBySelectedKey ==
    sortColumn # "null" =>
        \A i, j \in 1..Len(displayed) :
           i < j => SelectedComparison(displayed[i], displayed[j]) <= 0

\* C18: in every state after page load in which no start, stop or status
\* request is in flight and none has failed so far, monitoringActive equals
\* the monitoring flag of the backend.
C18_MirrorsBackendWhenQuiet ==
    (/\ loaded
     /\ \A m \in Monitors : monitor[m].pc = "idle"
     /\ ~monitorFailed)
    => monitoringActive = backendActive

\* C23: the loading indicator is visible exactly in the states in which at
\* least one loadDashboardData is in flight.
C23_LoadingShownIffRefreshInFlight ==
    loadingVisible <=> \E r \in Refreshes : InFlight(r)

\* the step ends the viewDetails invocation d
DetailEnds(d) == detail[d].pc = "sent" /\ detail'[d].pc = "idle"

\* C21: the modal becomes open, and its body changes, only in a step in
\* which a viewDetails ends whose fetch has succeeded and returned a
\* submission of the requested id; the body is then the rendering of that
\* fetched submission; a viewDetails that ends otherwise (apiCall has
\* thrown, or no submission was returned) leaves the modal as it was.
C21_ModalOpensOnFetchedSubmissionOnly ==
    [][/\ ((~modal.open /\ modal'.open) \/ modal'.body # modal.body) =>
             \E d \in Details :
                /\ DetailEnds(d)
                /\ detailDone'.outcome = "opened"
                /\ detailDone'.payload.some
                /\ detailDone'.id = detail[d].id
       /\ \A d \in Details :
             DetailEnds(d) =>
                IF detailDone'.outcome = "opened"
                THEN /\ modal'.open
                     /\ modal'.body.shown
                     /\ modal'.body.html =
                           generateDetailsHTML(detailDone'.payload.submission)
                ELSE modal' = modal]_vars

\* the modal is open on submission 2 as fetched (evaluated), which is not
\* what the store's record of submission 2 (pending) would render
C21_Witness ==
    /\ modal.open
    /\ detailDone.outcome = "opened" /\ detailDone.id = 2
    /\ modal.body.html.assessmentSection
    /\ \E i \in 1..Len(submissions) :
          /\ submissions[i]._id = 2
          /\ modal.body.html # generateDetailsHTML(submissions[i])

\* C22: for every submission whose status is not evaluated, the table row
\* shows no score and no grade, and the detail modal shows no assessment
\* section, score or grade, also when the record carries an assessment.
C22_AssessmentHiddenUnlessEvaluated ==
    /\ \A i \in 1..Len(displayed) :
          displayed[i].status # Evaluated =>
             /\ tableRow(displayed[i]).score = DashScore
             /\ tableRow(displayed[i]).grade = Dash
    /\ (modal.body.shown /\ modal.body.html.status # toUpperCase(Evaluated)) =>
          /\ ~modal.body.html.assessmentSection
          /\ modal.body.html.score = NoScore
          /\ modal.body.html.grade = <<>>

====
